---- MODULE Spec2Model ----
(***************************************************************************)
(* A model of two files of the repository:                                 *)
(*                                                                         *)
(*   examples/inference/text_to_image_generation-stable_diffusion_3.py     *)
(*     the benchmark script, one action per statement (SpecScript);        *)
(*   ppdiffusers/models/activations.py                                     *)
(*     get_activation over ACTIVATION_FUNCTIONS (SpecActivation),          *)
(*     GELU.forward (SpecGELU) and GEGLU.forward (SpecGEGLU).              *)
(*                                                                         *)
(* Strings the code inspects character by character (str.lower) are        *)
(* tuples of one-character strings.  Tensors are rows of integers; the     *)
(* values of the GELU and SiLU nonlinearities are in units of 10^-6.       *)
(***************************************************************************)
EXTENDS Integers, Sequences, FiniteSets, TLC

VARIABLES
    \* ---- the benchmark script
    pc,            \* the statement the script is about to run
    environ,       \* os.environ, restricted to the variables the script writes
    argv,          \* the command line: each option's string, or Absent
    args,          \* the namespace parse_args returned, or None
    pipe,          \* "unloaded" or "loaded": the module-level pipe object
    image,         \* the module-level image: the number of the call that made it
    i,             \* the loop variable of the two for-loops
    trace,         \* what the script has done so far, in order
    starttime,     \* position in trace of the start timestamp, 0 if not taken
    endtime,       \* position in trace of the end timestamp, 0 if not taken
    \* ---- get_activation
    ACTIVATION_FUNCTIONS,  \* the module-level registry: name -> layer object
    act_call,      \* the latest call of get_activation: argument and outcome
    prev_call,     \* the call before it
    \* ---- GELU / GEGLU
    layer,         \* the constructed layer: its class, dims, approximate, proj
    flags,         \* in_dynamic_mode() and USE_PEFT_BACKEND
    hidden_states, \* the input row given to forward
    out,           \* what forward returned
    ops            \* the framework operators forward has called, in order

scriptVars == <<pc, environ, argv, args, pipe, image, i, trace, starttime, endtime>>
actVars    == <<ACTIVATION_FUNCTIONS, act_call, prev_call>>
layerVars  == <<layer, flags, hidden_states, out, ops>>
vars       == <<scriptVars, actVars, layerVars>>

None == "None"
\* An option that the command line does not give.
Absent == <<"absent">>

(***************************************************************************)
(* Strings and str.lower()                                                 *)
(***************************************************************************)

\* The upper-case letters of the model's strings.  Its other characters are
\* lower-case letters, digits, " ", "_", and "U+0130", the capital I with a dot
\* above, whose lower-case form is the two code points "i" and "U+0307".
UpperLetters == {"A", "E", "F", "G", "H", "I", "L", "M", "N", "O", "R", "S",
                 "T", "U", "W", "Y"}

UpperToLower ==
    [c \in UpperLetters |->
        CASE c = "A" -> "a" [] c = "E" -> "e" [] c = "F" -> "f" [] c = "G" -> "g"
          [] c = "H" -> "h" [] c = "I" -> "i" [] c = "L" -> "l" [] c = "M" -> "m"
          [] c = "N" -> "n" [] c = "O" -> "o" [] c = "R" -> "r" [] c = "S" -> "s"
          [] c = "T" -> "t" [] c = "U" -> "u" [] c = "W" -> "w" [] c = "Y" -> "y"]

\* str.lower() of a one-character string: a string of one or two characters.
LowerChar(c) ==
    IF c \in UpperLetters THEN <<UpperToLower[c]>>
    ELSE IF c = "U+0130" THEN <<"i", "U+0307">>
    ELSE <<c>>

RECURSIVE Lower(_)
\* str.lower()
Lower(s) == IF s = <<>> THEN <<>> ELSE LowerChar(Head(s)) \o Lower(Tail(s))

(***************************************************************************)
(* The benchmark script                                                    *)
(***************************************************************************)

\* for i in range(5): the warm-up calls
WarmupTimes == 5
\* repeat_times = 10
repeat_times == 10

\* The option strings a command line of the model may give.
OptionStrings ==
    { <<"T", "r", "u", "e">>, <<"t", "r", "u", "e">>, <<"1">>, <<"Y", "E", "S">>,
      <<"F", "a", "l", "s", "e">>, <<"0">>, <<"o", "n">>, <<>> }

\* The values an inherited environment variable of the model may have.
EnvValues == {None, "True", "False"}

\* type=(lambda x: str(x).lower() in ["true", "1", "yes"])
BoolArg(x) ==
    Lower(x) \in { <<"t", "r", "u", "e">>, <<"1">>, <<"y", "e", "s">> }

\* argparse: an absent option keeps default=False, a given one goes through type
OptionValue(x) == IF x = Absent THEN FALSE ELSE BoolArg(x)

\* An entry of trace: what was done, the image it made or saved (0 if none),
\* and the two environment variables as they were at that moment.
Event(ev) ==
    [ev |-> ev, img |-> 0,
     opt |-> environ["INFERENCE_OPTIMIZE"],
     tri |-> environ["INFERENCE_OPTIMIZE_TRITON"]]

\* The number of pipe(...) calls in a trace.
RECURSIVE PipeCalls(_)
PipeCalls(t) ==
    IF t = <<>> THEN 0
    ELSE (IF Head(t).ev = "pipe" THEN 1 ELSE 0) + PipeCalls(Tail(t))

\* image = pipe(prompt, ...).images[0]: the call returns a fresh image, here
\* numbered by the call that made it.
CallPipe ==
    LET n == PipeCalls(trace) + 1
    IN  /\ pipe = "loaded"
        /\ image' = n
        /\ trace' = Append(trace, [Event("pipe") EXCEPT !.img = n])

InitScript ==
    /\ pc = "setflag"
    /\ environ \in [{"INFERENCE_OPTIMIZE", "INFERENCE_OPTIMIZE_TRITON"} -> EnvValues]
    /\ argv \in [benchmark : {Absent, <<"T", "r", "u", "e">>, <<"Y", "E", "S">>, <<"0">>},
                 inference_optimize : OptionStrings \cup {Absent},
                 inference_optimize_triton : {Absent, <<"t", "r", "u", "e">>, <<"o", "n">>},
                 ints_ok : BOOLEAN]
    /\ args = None
    /\ pipe = "unloaded"
    /\ image = 0
    /\ i = 0
    /\ trace = <<>>
    /\ starttime = 0
    /\ endtime = 0

\* line 16: os.environ["FLAGS_use_cuda_managed_memory"] = "true"
SetManagedMemory ==
    /\ pc = "setflag"
    /\ pc' = "load"
    /\ trace' = Append(trace, Event("setflag"))
    /\ UNCHANGED <<actVars, layerVars, environ, argv, args, pipe, image, i, starttime, endtime>>

\* lines 24-29: pipe = StableDiffusion3Pipeline.from_pretrained(...)
LoadPipeline ==
    /\ pc = "load"
    /\ pipe' = "loaded"
    /\ pc' = "parse"
    /\ trace' = Append(trace, Event("load"))
    /\ UNCHANGED <<actVars, layerVars, environ, argv, args, image, i, starttime, endtime>>

\* line 62: args = parse_args(); argparse exits the process on an option
\* whose type conversion raises (type=int on --height, --width, --num-inference-steps)
ParseArgs ==
    /\ pc = "parse"
    /\ IF argv.ints_ok
       THEN /\ args' = [benchmark |-> OptionValue(argv.benchmark),
                        inference_optimize |-> OptionValue(argv.inference_optimize),
                        inference_optimize_triton |->
                            OptionValue(argv.inference_optimize_triton)]
            /\ pc' = "opt"
            /\ trace' = Append(trace, Event("parse"))
       ELSE /\ args' = args
            /\ pc' = "exit"
            /\ trace' = Append(trace, Event("exit"))
    /\ UNCHANGED <<actVars, layerVars, environ, argv, pipe, image, i, starttime, endtime>>

\* lines 64-65
SetInferenceOptimize ==
    /\ pc = "opt"
    /\ IF args.inference_optimize
       THEN /\ environ' = [environ EXCEPT !["INFERENCE_OPTIMIZE"] = "True"]
            /\ trace' = Append(trace, Event("set INFERENCE_OPTIMIZE"))
       ELSE UNCHANGED <<environ, trace>>
    /\ pc' = "triton"
    /\ UNCHANGED <<actVars, layerVars, argv, args, pipe, image, i, starttime, endtime>>

\* Lines 66-67 writing the variable of lines 64-65.
SetInferenceOptimizeTriton_WritesOptimize ==
    /\ pc = "triton"
    /\ IF args.inference_optimize_triton
       THEN /\ environ' = [environ EXCEPT !["INFERENCE_OPTIMIZE"] = "True"]
            /\ trace' = Append(trace, Event("set INFERENCE_OPTIMIZE"))
       ELSE UNCHANGED <<environ, trace>>
    /\ pc' = "generate"
    /\ UNCHANGED <<actVars, layerVars, argv, args, pipe, image, i, starttime, endtime>>

\* lines 66-67
SetInferenceOptimizeTriton ==
    /\ pc = "triton"
    /\ IF args.inference_optimize_triton
       THEN /\ environ' = [environ EXCEPT !["INFERENCE_OPTIMIZE_TRITON"] = "True"]
            /\ trace' = Append(trace, Event("set INFERENCE_OPTIMIZE_TRITON"))
       ELSE UNCHANGED <<environ, trace>>
    /\ pc' = "generate"
    /\ UNCHANGED <<actVars, layerVars, argv, args, pipe, image, i, starttime, endtime>>

\* Generate with the test of line 74 dropped: the benchmark always runs.
Generate_AlwaysBenchmark ==
    /\ pc = "generate"
    /\ CallPipe
    /\ pc' = "warmup"
    /\ i' = 0
    /\ UNCHANGED <<actVars, layerVars, environ, argv, args, pipe, starttime, endtime>>

\* lines 70-72, then the test of line 74
Generate ==
    /\ pc = "generate"
    /\ CallPipe
    /\ pc' = IF args.benchmark THEN "warmup" ELSE "save"
    /\ i' = 0
    /\ UNCHANGED <<actVars, layerVars, environ, argv, args, pipe, starttime, endtime>>

\* lines 76-83: one iteration of the warm-up loop
Warmup ==
    /\ pc = "warmup"
    /\ i < WarmupTimes
    /\ CallPipe
    /\ i' = i + 1
    /\ UNCHANGED <<actVars, layerVars, pc, environ, argv, args, pipe, starttime, endtime>>

\* Line 86 missing: the start timestamp follows the warm-up loop directly.
SynchronizeBefore_Skipped ==
    /\ pc = "warmup"
    /\ i = WarmupTimes
    /\ pc' = "start"
    /\ UNCHANGED <<actVars, layerVars, environ, argv, args, pipe, image, i, trace,
                   starttime, endtime>>

\* line 86, once the warm-up loop is exhausted: paddle.device.synchronize()
SynchronizeBefore ==
    /\ pc = "warmup"
    /\ i = WarmupTimes
    /\ trace' = Append(trace, Event("sync"))
    /\ pc' = "start"
    /\ UNCHANGED <<actVars, layerVars, environ, argv, args, pipe, image, i, starttime, endtime>>

\* line 87: starttime = datetime.datetime.now()
StartTime ==
    /\ pc = "start"
    /\ trace' = Append(trace, Event("now"))
    /\ starttime' = Len(trace) + 1
    /\ i' = 0
    /\ pc' = "timed"
    /\ UNCHANGED <<actVars, layerVars, environ, argv, args, pipe, image, endtime>>

\* lines 88-95: one iteration of the timed loop
Timed ==
    /\ pc = "timed"
    /\ i < repeat_times
    /\ CallPipe
    /\ i' = i + 1
    /\ UNCHANGED <<actVars, layerVars, pc, environ, argv, args, pipe, starttime, endtime>>

\* line 96, once the timed loop is exhausted: paddle.device.synchronize()
SynchronizeAfter ==
    /\ pc = "timed"
    /\ i = repeat_times
    /\ trace' = Append(trace, Event("sync"))
    /\ pc' = "end"
    /\ UNCHANGED <<actVars, layerVars, environ, argv, args, pipe, image, i, starttime, endtime>>

\* line 97: endtime = datetime.datetime.now()
EndTime ==
    /\ pc = "end"
    /\ trace' = Append(trace, Event("now"))
    /\ endtime' = Len(trace) + 1
    /\ pc' = "print_time"
    /\ UNCHANGED <<actVars, layerVars, environ, argv, args, pipe, image, i, starttime>>

\* lines 99-101: print("The ave end to end time : ", ...)
PrintTime ==
    /\ pc = "print_time"
    /\ trace' = Append(trace, Event("print_time"))
    /\ pc' = "print_mem"
    /\ UNCHANGED <<actVars, layerVars, environ, argv, args, pipe, image, i, starttime, endtime>>

\* lines 103-104: print(f"Max used CUDA memory : ...")
PrintMemory ==
    /\ pc = "print_mem"
    /\ trace' = Append(trace, Event("print_mem"))
    /\ pc' = "save"
    /\ UNCHANGED <<actVars, layerVars, environ, argv, args, pipe, image, i, starttime, endtime>>

\* line 106: image.save(...)
Save ==
    /\ pc = "save"
    /\ trace' = Append(trace, [Event("save") EXCEPT !.img = image])
    /\ pc' = "done"
    /\ UNCHANGED <<actVars, layerVars, environ, argv, args, pipe, image, i, starttime, endtime>>

IdleScript ==
    /\ pc = "idle"
    /\ environ = None
    /\ argv = None
    /\ args = None
    /\ pipe = "unloaded"
    /\ image = 0
    /\ i = 0
    /\ trace = <<>>
    /\ starttime = 0
    /\ endtime = 0

NextScript ==
    \/ SetManagedMemory
    \/ LoadPipeline
    \/ ParseArgs
    \/ SetInferenceOptimize
    \/ SetInferenceOptimizeTriton
    \/ Generate
    \/ Warmup
    \/ SynchronizeBefore
    \/ StartTime
    \/ Timed
    \/ SynchronizeAfter
    \/ EndTime
    \/ PrintTime
    \/ PrintMemory
    \/ Save

(***************************************************************************)
(* get_activation                                                          *)
(***************************************************************************)

\* A layer object: its class and its identity (two Silu() calls make two objects).
Layer(cls, id) == [cls |-> cls, id |-> id]
NoLayer == Layer("None", 0)

\* ACTIVATION_FUNCTIONS = {"swish": nn.Silu(), "silu": nn.Silu(), ...}
ActivationFunctions ==
    ( <<"s", "w", "i", "s", "h">> :> Layer("Silu", 1) ) @@
    ( <<"s", "i", "l", "u">>      :> Layer("Silu", 2) ) @@
    ( <<"m", "i", "s", "h">>      :> Layer("Mish", 3) ) @@
    ( <<"g", "e", "l", "u">>      :> Layer("GELU", 4) ) @@
    ( <<"r", "e", "l", "u">>      :> Layer("ReLU", 5) )

\* The upper-case letter of a lower-case one.
UpperOf(c) == CHOOSE u \in UpperLetters : UpperToLower[u] = c

RECURSIVE CaseVariants(_)
\* Every spelling of a lower-case name in mixed case.
CaseVariants(s) ==
    IF s = <<>> THEN { <<>> }
    ELSE { <<c>> \o rest : c \in {Head(s), UpperOf(Head(s))},
                          rest \in CaseVariants(Tail(s)) }

\* The strings get_activation is called with: the registered names in every
\* mixed-case spelling, and strings that are no registered name.
ActFnStrings ==
    UNION { CaseVariants(n) : n \in DOMAIN ActivationFunctions }
    \cup { <<>>, <<"t", "a", "n", "h">>, <<"g", "e", "g", "l", "u">>,
           <<"G", "E", "L", "U", " ">>, <<"s", "i", "l", "u", "_">>,
           <<"M", "U+0130", "S", "H">>, <<"m", "i", "U+0307", "s", "h">>,
           <<"R", "e", "l">>, <<"s", "w", "i", "s", "h", "1">>, <<" ", "r", "e", "l", "u">> }

NoCall == [called |-> FALSE, act_fn |-> <<>>, ret |-> NoLayer, raised |-> "None"]

\* get_activation without line 43: the name is looked up as given.
get_activation_NoLower(act_fn) ==
    /\ act_call' =
            IF act_fn \in DOMAIN ACTIVATION_FUNCTIONS
            THEN [called |-> TRUE, act_fn |-> act_fn,
                  ret |-> ACTIVATION_FUNCTIONS[act_fn], raised |-> "None"]
            ELSE [called |-> TRUE, act_fn |-> act_fn,
                  ret |-> NoLayer, raised |-> "ValueError"]
    /\ prev_call' = act_call
    /\ UNCHANGED <<ACTIVATION_FUNCTIONS, scriptVars, layerVars>>

\* lines 33-47: get_activation(act_fn)
get_activation(act_fn) ==
    LET lowered == Lower(act_fn)
    IN  /\ act_call' =
            IF lowered \in DOMAIN ACTIVATION_FUNCTIONS
            THEN [called |-> TRUE, act_fn |-> act_fn,
                  ret |-> ACTIVATION_FUNCTIONS[lowered], raised |-> "None"]
            ELSE [called |-> TRUE, act_fn |-> act_fn,
                  ret |-> NoLayer, raised |-> "ValueError"]
        /\ prev_call' = act_call
        /\ UNCHANGED <<ACTIVATION_FUNCTIONS, scriptVars, layerVars>>

GetActivation == \E act_fn \in ActFnStrings : get_activation(act_fn)

IdleActivation ==
    /\ ACTIVATION_FUNCTIONS = None
    /\ act_call = None
    /\ prev_call = None

InitActivation ==
    /\ ACTIVATION_FUNCTIONS = ActivationFunctions
    /\ act_call = NoCall
    /\ prev_call = NoCall

(***************************************************************************)
(* Tensors and the framework's operators                                   *)
(***************************************************************************)

\* Largest absolute value of an entry of an input row.
MaxVal == 2
\* Largest dim_in and dim_out of a layer of the model.
MaxDimIn == 2
MaxDimOut == 2
\* The weights and the bias of a projection are drawn by seed: 0..MaxSeed.
MaxSeed == 2

\* All rows of n entries in -MaxVal..MaxVal.
Rows(n) == [1..n -> (0 - MaxVal)..MaxVal]

\* The weight of a projection, dim_in x cols, and its bias, cols, for a seed.
WeightOf(seed, rows, cols) ==
    [r \in 1..rows |-> [c \in 1..cols |-> ((seed + r + 2 * c) % 3) - 1]]
BiasOf(seed, cols) == [c \in 1..cols |-> (((seed + 1) * c) % 3) - 1]

RECURSIVE Dot(_, _, _)
\* sum over r of x[r] * w[r][c]
Dot(x, w, c) ==
    IF x = <<>> THEN 0 ELSE Head(x) * Head(w)[c] + Dot(Tail(x), Tail(w), c)

\* paddle.matmul(x, weight) for one row x
Matmul(x, w) == [c \in 1..Len(w[1]) |-> Dot(x, w, c)]

\* nn.Linear.forward: matmul(x, weight) + bias
Linear(x, w, b) == [c \in 1..Len(b) |-> Matmul(x, w)[c] + b[c]]

\* The exact GELU, x * Phi(x), of an integer in units of 10^-6.
GeluErf(x) ==
    CASE x <= -6 -> 0
      [] x = -5 -> -1
      [] x = -4 -> -127
      [] x = -3 -> -4050
      [] x = -2 -> -45500
      [] x = -1 -> -158655
      [] x = 0  -> 0
      [] x = 1  -> 841345
      [] x = 2  -> 1954500
      [] x = 3  -> 2995950
      [] x = 4  -> 3999873
      [] x = 5  -> 4999999
      [] x >= 6 -> x * 1000000

\* The tanh approximation of GELU,
\* 0.5 x (1 + tanh(sqrt(2/pi) (x + 0.044715 x^3))), in units of 10^-6.
GeluTanh(x) ==
    CASE x <= -5 -> 0
      [] x = -4 -> -70
      [] x = -3 -> -3637
      [] x = -2 -> -45402
      [] x = -1 -> -158808
      [] x = 0  -> 0
      [] x = 1  -> 841192
      [] x = 2  -> 1954598
      [] x = 3  -> 2996363
      [] x = 4  -> 3999930
      [] x >= 5 -> x * 1000000

\* F.gelu(x, approximate) elementwise
F_gelu(x, approximate) ==
    [c \in 1..Len(x) |-> IF approximate THEN GeluTanh(x[c]) ELSE GeluErf(x[c])]

\* SiLU, x * sigmoid(x), of an integer in units of 10^-6; exact to that unit
\* for |x| <= 10, and x itself (or 0) beyond.
SiluNonNegative(x) ==
    CASE x = 0   -> 0
      [] x = 1   -> 731059
      [] x = 2   -> 1761594
      [] x = 3   -> 2857722
      [] x = 4   -> 3928055
      [] x = 5   -> 4966536
      [] x = 6   -> 5985164
      [] x = 7   -> 6993623
      [] x = 8   -> 7997317
      [] x = 9   -> 8998889
      [] x = 10  -> 9999546
      [] x > 10  -> x * 1000000

\* silu(-x) = silu(x) - x
Silu(x) == IF x < 0 THEN SiluNonNegative(0 - x) + x * 1000000 ELSE SiluNonNegative(x)

\* Tensor.chunk(2, axis=-1): the two halves of a row, in order.
Chunk2(x) ==
    LET h == Len(x) \div 2
    IN  << SubSeq(x, 1, h), SubSeq(x, h + 1, 2 * h) >>

\* The fused kernel behind paddle._C_ops.fused_bias_act and the
\* "fused_bias_act" op: add the bias, then apply act_method.  Its "gelu" is
\* the exact GELU; its "swiglu" is silu(first half) * second half.  The
\* kernel is given no approximate argument.  A bias of <<>> stands for
\* bias=None.
fused_bias_act(x, bias, act_method) ==
    LET y == IF bias = <<>> THEN x ELSE [c \in 1..Len(x) |-> x[c] + bias[c]]
        halves == Chunk2(y)
    IN  CASE act_method = "gelu" -> F_gelu(y, FALSE)
          [] act_method = "swiglu" ->
                [c \in 1..Len(halves[1]) |-> Silu(halves[1][c]) * halves[2][c]]

(***************************************************************************)
(* GELU                                                                    *)
(***************************************************************************)

\* GELU.__init__(dim_in, dim_out, approximate): self.proj = nn.Linear(dim_in,
\* dim_out), self.approximate = approximate.  The projection's parameters
\* are those of the seeds.
GELU_init(dim_in, dim_out, approximate, wseed, bseed) ==
    [cls |-> "GELU", dim_in |-> dim_in, dim_out |-> dim_out,
     approximate |-> approximate,
     weight |-> WeightOf(wseed, dim_in, dim_out),
     bias |-> BiasOf(bseed, dim_out)]

\* GELU.gelu(gate): F.gelu(gate, approximate=self.approximate != "none")
GELU_gelu(self, gate) == F_gelu(gate, self.approximate # "none")

\* One operator call, as the framework sees it.
Op(name, bias, act_method) == [op |-> name, bias |-> bias, act_method |-> act_method]

\* GELU.compute_activation(ffn1_out, bias, act_method): the ops it runs and
\* the tensor it returns.  In dynamic mode it calls paddle._C_ops.fused_bias_act,
\* otherwise it appends a "fused_bias_act" op with the same inputs and attrs.
compute_activation(ffn1_out, bias, act_method) ==
    [ops |-> << Op(IF flags.dynamic THEN "_C_ops.fused_bias_act"
                                    ELSE "append_op fused_bias_act",
                   bias, act_method) >>,
     out |-> fused_bias_act(ffn1_out, bias, act_method)]

\* The default of compute_activation's act_method parameter.
DefaultActMethod == "swiglu"

\* lines 118-125: GELU.forward(hidden_states)
GELU_forward(self, x) ==
    LET h == Matmul(x, self.weight)
        r == compute_activation(h, self.bias, "gelu")
    IN  [ops |-> << Op("matmul", <<>>, "None") >> \o r.ops, out |-> r.out]

\* forward is called once on the layer Init constructed
ForwardGELU ==
    /\ layer.cls = "GELU"
    /\ ops = <<>>
    /\ \E x \in Rows(layer.dim_in) :
          LET r == GELU_forward(layer, x)
          IN  /\ hidden_states' = x
              /\ out' = r.out
              /\ ops' = r.ops
    /\ UNCHANGED <<layer, flags, scriptVars, actVars>>

(***************************************************************************)
(* GEGLU                                                                   *)
(***************************************************************************)

\* GEGLU.__init__(dim_in, dim_out): self.proj = linear_cls(dim_in, dim_out * 2)
GEGLU_init(dim_in, dim_out, wseed, bseed) ==
    [cls |-> "GEGLU", dim_in |-> dim_in, dim_out |-> dim_out,
     approximate |-> "none",
     weight |-> WeightOf(wseed, dim_in, dim_out * 2),
     bias |-> BiasOf(bseed, dim_out * 2)]

\* GEGLU.gelu(gate): F.gelu(gate)
GEGLU_gelu(gate) == F_gelu(gate, FALSE)

\* The values of forward's scale argument (1.0 by default).
Scales == {1, 2}

\* self.proj(hidden_states, *args): nn.Linear takes no further argument, and
\* LoRACompatibleLinear, with no LoRA layer attached to the layer __init__
\* made, has nothing for its scale to scale.
Proj(self, x, proj_args) == Linear(x, self.weight, self.bias)

\* GEGLU.forward with the two names of line 148 exchanged: the first half
\* is taken for the gate.
GEGLU_forward_SwappedHalves(self, x, scale) ==
    LET proj_args == IF flags.use_peft THEN <<>> ELSE <<scale>>
        halves == Chunk2(Proj(self, x, proj_args))
        hidden == halves[2]
        gate == GEGLU_gelu(halves[1])
    IN  [ops |-> << Op("linear", self.bias, "None"), Op("chunk", <<>>, "None"),
                    Op("gelu", <<>>, "None"), Op("multiply", <<>>, "None") >>,
         out |-> [c \in 1..Len(hidden) |-> hidden[c] * gate[c]]]

\* lines 146-149: GEGLU.forward(hidden_states, scale)
GEGLU_forward(self, x, scale) ==
    LET proj_args == IF flags.use_peft THEN <<>> ELSE <<scale>>
        halves == Chunk2(Proj(self, x, proj_args))
        hidden == halves[1]
        gate == GEGLU_gelu(halves[2])
    IN  [ops |-> << Op("linear", self.bias, "None"), Op("chunk", <<>>, "None"),
                    Op("gelu", <<>>, "None"), Op("multiply", <<>>, "None") >>,
         out |-> [c \in 1..Len(hidden) |-> hidden[c] * gate[c]]]

\* forward is called once on the layer Init constructed
ForwardGEGLU ==
    /\ layer.cls = "GEGLU"
    /\ ops = <<>>
    /\ \E x \in Rows(layer.dim_in), scale \in Scales :
          LET r == GEGLU_forward(layer, x, scale)
          IN  /\ hidden_states' = x
              /\ out' = r.out
              /\ ops' = r.ops
    /\ UNCHANGED <<layer, flags, scriptVars, actVars>>

IdleLayer ==
    /\ layer = None
    /\ flags = None
    /\ hidden_states = None
    /\ out = None
    /\ ops = <<>>

\* in_dynamic_mode() and USE_PEFT_BACKEND
FrameworkFlags == [dynamic : BOOLEAN, use_peft : BOOLEAN]

InitGELULayer ==
    /\ layer \in { GELU_init(di, do, ap, ws, bs) :
                      di \in 1..MaxDimIn, do \in 1..MaxDimOut,
                      ap \in {"none", "tanh"}, ws \in 0..MaxSeed, bs \in 0..MaxSeed }
    /\ flags \in FrameworkFlags
    /\ hidden_states = <<>>
    /\ out = <<>>
    /\ ops = <<>>

InitGEGLULayer ==
    /\ layer \in { GEGLU_init(di, do, ws, bs) :
                      di \in 1..MaxDimIn, do \in 1..MaxDimOut,
                      ws \in 0..MaxSeed, bs \in 0..MaxSeed }
    /\ flags \in FrameworkFlags
    /\ hidden_states = <<>>
    /\ out = <<>>
    /\ ops = <<>>

(***************************************************************************)
(* The specifications                                                      *)
(***************************************************************************)

InitS == InitScript /\ IdleActivation /\ IdleLayer
SpecScript == InitS /\ [][NextScript]_vars

InitA == IdleScript /\ InitActivation /\ IdleLayer
NextActivation == GetActivation
SpecActivation == InitA /\ [][NextActivation]_vars

InitG == IdleScript /\ IdleActivation /\ InitGELULayer
NextGELU == ForwardGELU
SpecGELU == InitG /\ [][NextGELU]_vars

InitGG == IdleScript /\ IdleActivation /\ InitGEGLULayer
NextGEGLU == ForwardGEGLU
SpecGEGLU == InitGG /\ [][NextGEGLU]_vars

(***************************************************************************)
(* The benchmark script: properties                                        *)
(***************************************************************************)

\* The positions of trace that hold an event of the given kinds.
At(kinds) == { k \in 1..Len(trace) : trace[k].ev \in kinds }

\* Every position of a is before every position of b.
Before(a, b) == \A j \in a, k \in b : j < k

\* parse_args has returned: args is the namespace.
Parsed == pc \notin {"idle", "setflag", "load", "parse", "exit"}

\* C1: the script loads the pipeline, then parses the arguments, then
\* generates, then (only with --benchmark) runs the timed repetitions, then
\* saves.  A finished run has called the pipeline once without --benchmark and
\* 16 times with it, and has saved exactly once, after the last call, the
\* image the most recent call returned.
C1_StagesInOrder ==
    /\ Cardinality(At({"load"})) <= 1
    /\ Cardinality(At({"parse"})) <= 1
    /\ Cardinality(At({"save"})) <= 1
    /\ Before(At({"load"}), At({"parse"}))
    /\ Before(At({"parse"}), At({"pipe"}))
    /\ Before(At({"pipe"}), At({"save"}))
    /\ At({"pipe"}) # {} => At({"load"}) # {} /\ At({"parse"}) # {}
    /\ \A k \in At({"save"}) :
          /\ k = Len(trace)
          /\ trace[k].img = PipeCalls(trace)
          /\ trace[k].img >= 1
    /\ \A k \in At({"pipe"}) :
          trace[k].img = PipeCalls(SubSeq(trace, 1, k))
    /\ Parsed /\ ~args.benchmark =>
          /\ PipeCalls(trace) <= 1
          /\ At({"sync", "now", "print_time", "print_mem"}) = {}
    /\ pc = "done" =>
          /\ Cardinality(At({"save"})) = 1
          /\ PipeCalls(trace) = IF args.benchmark THEN 16 ELSE 1

C1_Witness ==
    /\ pc = "done"
    /\ args.benchmark
    /\ PipeCalls(trace) = 16
    /\ trace[Len(trace)].ev = "save"
    /\ trace[Len(trace)].img = 16

\* C5: with --inference_optimize true, INFERENCE_OPTIMIZE is "True" at
\* every pipeline call of the run, and likewise INFERENCE_OPTIMIZE_TRITON with
\* --inference_optimize_triton; a flag that is false leaves its variable as
\* the script found it, whatever the other flag is.
C5_OptimizeFlagsReachEnvironment ==
    Parsed =>
        /\ args.inference_optimize =>
              \A k \in At({"pipe"}) : trace[k].opt = "True"
        /\ args.inference_optimize_triton =>
              \A k \in At({"pipe"}) : trace[k].tri = "True"
        /\ ~args.inference_optimize =>
              /\ At({"set INFERENCE_OPTIMIZE"}) = {}
              /\ \A k \in 1..Len(trace) : trace[k].opt = trace[1].opt
              /\ environ["INFERENCE_OPTIMIZE"] = trace[1].opt
        /\ ~args.inference_optimize_triton =>
              /\ At({"set INFERENCE_OPTIMIZE_TRITON"}) = {}
              /\ \A k \in 1..Len(trace) : trace[k].tri = trace[1].tri
              /\ environ["INFERENCE_OPTIMIZE_TRITON"] = trace[1].tri

C5_Witness ==
    /\ pc = "done"
    /\ args.benchmark
    /\ ~args.inference_optimize
    /\ args.inference_optimize_triton
    /\ trace[1].opt = None
    /\ trace[1].tri = "False"
    /\ environ["INFERENCE_OPTIMIZE"] = None
    /\ environ["INFERENCE_OPTIMIZE_TRITON"] = "True"

\* C6: the initial generation and the 5 warm-up calls are over, and the
\* device synchronized after them, when the start timestamp is taken; between
\* the two timestamps lie the 10 timed calls and then one synchronize, and
\* nothing else; the two prints come after the end timestamp, and only with
\* --benchmark.
C6_TimedWindow ==
    /\ starttime # 0 =>
          /\ trace[starttime].ev = "now"
          /\ trace[starttime - 1].ev = "sync"
          /\ trace[starttime - 2].ev = "pipe"
          /\ trace[starttime - 2].img = 6
          /\ PipeCalls(SubSeq(trace, 1, starttime)) = 6
    /\ endtime # 0 =>
          /\ starttime # 0
          /\ trace[endtime].ev = "now"
          /\ endtime = starttime + 12
          /\ \A k \in (starttime + 1)..(starttime + 10) :
                /\ trace[k].ev = "pipe"
                /\ trace[k].img = 6 + (k - starttime)
          /\ trace[endtime - 1].ev = "sync"
          /\ PipeCalls(SubSeq(trace, 1, endtime)) = 16
    /\ \A k \in At({"print_time", "print_mem"}) :
          /\ endtime # 0
          /\ k > endtime
          /\ args.benchmark
    /\ At({"now"}) \subseteq {starttime, endtime}
    /\ Cardinality(At({"sync"})) <= 2
    /\ Parsed /\ ~args.benchmark => starttime = 0 /\ endtime = 0

C6_Witness ==
    /\ pc = "done"
    /\ endtime = starttime + 12
    /\ At({"print_time"}) # {}
    /\ At({"print_mem"}) # {}

(***************************************************************************)
(* get_activation: properties                                              *)
(***************************************************************************)

\* The class the registry holds under each of its five names.
RegisteredClass ==
    ( <<"s", "w", "i", "s", "h">> :> "Silu" ) @@
    ( <<"s", "i", "l", "u">>      :> "Silu" ) @@
    ( <<"m", "i", "s", "h">>      :> "Mish" ) @@
    ( <<"g", "e", "l", "u">>      :> "GELU" ) @@
    ( <<"r", "e", "l", "u">>      :> "ReLU" )

\* What the call returned is what the registry held under the lower-cased
\* name, or the call raised ValueError and returned nothing.
AsRegistered(call) ==
    LET name == Lower(call.act_fn)
    IN  IF name \in DOMAIN RegisteredClass
        THEN /\ call.raised = "None"
             /\ call.ret = ActivationFunctions[name]
             /\ call.ret.cls = RegisteredClass[name]
        ELSE /\ call.raised = "ValueError"
             /\ call.ret = NoLayer

\* C2: get_activation returns the layer registered under the lower-cased
\* name for every spelling of the five names and raises ValueError for every
\* other string; it leaves ACTIVATION_FUNCTIONS as it was, and two calls with
\* the same name return the same object.
C2_CaseInsensitiveLookup ==
    /\ ACTIVATION_FUNCTIONS = ActivationFunctions
    /\ act_call.called => AsRegistered(act_call)
    /\ prev_call.called => AsRegistered(prev_call)
    /\ act_call.called /\ prev_call.called
         /\ Lower(act_call.act_fn) = Lower(prev_call.act_fn)
         => /\ act_call.ret = prev_call.ret
            /\ act_call.raised = prev_call.raised

C2_Witness ==
    /\ prev_call.called
    /\ prev_call.act_fn = <<"s", "i", "l", "u">>
    /\ act_call.act_fn = <<"S", "i", "L", "U">>
    /\ act_call.ret = Layer("Silu", 2)
    /\ act_call.raised = "None"

(***************************************************************************)
(* GEGLU and GELU: properties                                              *)
(***************************************************************************)

\* forward has been called.
Called == ops # <<>>

\* The projection of the input: entry c of x W + b.
Projected(c) ==
    Dot(hidden_states, layer.weight, c) + layer.bias[c]

\* C3: GEGLU.forward projects the input to width 2 * dim_out with one linear
\* layer and returns, at each of its dim_out positions c, entry c of the
\* projection times the exact GELU of entry dim_out + c.
C3_GEGLUGatesWithSecondHalf ==
    /\ Len(layer.bias) = 2 * layer.dim_out
    /\ \A r \in 1..layer.dim_in : Len(layer.weight[r]) = 2 * layer.dim_out
    /\ Called =>
          /\ Cardinality({ k \in 1..Len(ops) : ops[k].op = "linear" }) = 1
          /\ Len(out) = layer.dim_out
          /\ \A c \in 1..layer.dim_out :
                out[c] = Projected(c) * GeluErf(Projected(layer.dim_out + c))

C3_Witness ==
    /\ Called
    /\ layer.dim_out = 2
    /\ layer.dim_in = 2
    /\ out[1] # 0
    /\ out[2] # 0
    /\ out[1] # Projected(3) * GeluErf(Projected(1))

\* C4: GELU.forward applies the tanh approximation of GELU to the projected
\* input when the layer was constructed with approximate="tanh", and the exact
\* GELU when it was constructed with approximate="none".
C4_ApproximateSelectsVariant ==
    Called =>
        /\ Len(out) = layer.dim_out
        /\ \A c \in 1..layer.dim_out :
              out[c] = IF layer.approximate = "tanh"
                       THEN GeluTanh(Projected(c))
                       ELSE GeluErf(Projected(c))

\* C7: GELU.forward returns what self.gelu(self.proj(hidden_states))
\* returns, by one matmul with proj.weight and one fused-bias-activation call
\* that is given proj.bias and act_method "gelu".
C7_ForwardEqualsGeluOfProj ==
    Called =>
        /\ Len(ops) = 2
        /\ ops[1].op = "matmul"
        /\ ops[2].bias = layer.bias
        /\ ops[2].act_method = "gelu"
        /\ ops[2].act_method # DefaultActMethod
        /\ out = GELU_gelu(layer, Linear(hidden_states, layer.weight, layer.bias))

====
